---- MODULE Spec2Model ----
(***************************************************************************)
(* Model of futu_fetch.py: the polling scheduler (main), the snapshot      *)
(* differ (get_changes, generate_change_data, call_trade_api) and the      *)
(* LongPortTrader (submit_order, send_error_notification, check_and_trade, *)
(* track_and_trade).                                                       *)
(*                                                                         *)
(* Units: prices are integer cents (the code rounds every quote to two     *)
(* decimals), ratio percents are integer hundredths of a percent (the code *)
(* rounds them to two decimals), the balance is in whole dollars.          *)
(***************************************************************************)
EXTENDS Integers, Sequences, FiniteSets, TLC

(* ---------------------------- bounds ----------------------------------- *)
\* longest record_items list of a feed snapshot
MaxRecords == 2
\* longest position list the brokerage returns
MaxPositions == 2

(* ------------------------ program constants ---------------------------- *)
max_retries == 3
retry_delay == 5
OFF_HOURS_INTERVAL == 3600
POLLING_INTERVAL_SECONDS == 60
\* usd_balance (dollars), loss_threshold and profit_threshold (1/10000)
usd_balance == 10000
loss_threshold == 100
profit_threshold == 400
\* trading_hours["US"], minutes after midnight
US_START == 240
US_END == 1200

(* --------------------------- value domains ----------------------------- *)
\* Python's None, and a file that exists but does not parse
None == [null |-> TRUE]
Corrupt == [corrupt |-> TRUE]

StockCodes == {"AAA", "BBB"}
MarketRatios == {1000, 2000}

\* a JSON number, and a JSON string (a value that is not a number)
Num(n) == [num |-> n]
Text == [str |-> "n/a"]

\* one market_items entry whose 'ratio' key holds v, and one without the key
MarketItem(v) == [ratio |-> v]
NoRatioItem == [market |-> 2]

\* one record_items entry of the feed (market 2: a US stock)
Record(code, ratio) == [stock_code |-> code, market |-> 2, total_ratio |-> ratio]

RECURSIVE SeqsUpTo(_, _)
SeqsUpTo(S, n) ==
    IF n = 0 THEN {<<>>}
    ELSE LET shorter == SeqsUpTo(S, n - 1)
         IN  shorter \cup {Append(s, e) : s \in {t \in shorter : Len(t) = n - 1}, e \in S}

DistinctCodes(items) ==
    \A i, j \in 1..Len(items) : i # j => items[i].stock_code # items[j].stock_code

\* the record lists the feed serves: AAA at 10%, 10.5% or 30% of a market
\* ratio of 1000 beside BBB at 30%, in either order, or nothing at all
RecordItems ==
    {Record("AAA", 100), Record("AAA", 105), Record("AAA", 300), Record("BBB", 300)}

RecordLists ==
    {s \in SeqsUpTo(RecordItems, MaxRecords) :
        /\ DistinctCodes(s)
        /\ Len(s) # 1
        /\ Len(s) > 0 => (s[1].stock_code = "BBB" => s[2].total_ratio = 100)}

\* the 'data' field of the feed response
Snapshots ==
    {s \in [record_items : RecordLists,
            market_items : {<<MarketItem(Num(r))>> : r \in MarketRatios}] :
        s.market_items[1].ratio.num # 1000 =>
            /\ Len(s.record_items) > 0
            /\ s.record_items[1].stock_code = "AAA"
            /\ s.record_items[1].total_ratio = 100}

(* ------------------------------ json.dumps ----------------------------- *)
\* json.dumps(item, sort_keys=True) of one record: its key/value pairs in
\* ascending key order
DumpsItem(item) ==
    << <<"market", item.market>>,
       <<"stock_code", item.stock_code>>,
       <<"total_ratio", item.total_ratio>> >>

\* json.dumps(record_items, sort_keys=True): list order is kept
DumpsList(items) == [i \in 1..Len(items) |-> DumpsItem(items[i])]

(* ------------------------------ get_changes ---------------------------- *)
RecordsOf(full_data) == IF full_data = None THEN <<>> ELSE full_data.record_items

HasCode(items, code) == \E i \in 1..Len(items) : items[i].stock_code = code

\* new_dict[code]
ItemOf(items, code) ==
    items[CHOOSE i \in 1..Len(items) : items[i].stock_code = code]

\* get_changes without its second loop: symbols only in the new document are
\* not reported
get_changes_no_additions(old_full_data, new_full_data) ==
    LET old_records == RecordsOf(old_full_data)
        new_records == RecordsOf(new_full_data)
        paired == [i \in 1..Len(old_records) |->
                     IF HasCode(new_records, old_records[i].stock_code)
                     THEN <<old_records[i], ItemOf(new_records, old_records[i].stock_code)>>
                     ELSE <<old_records[i], None>>]
    IN  SelectSeq(paired,
            LAMBDA p : p[2] = None \/ DumpsItem(p[1]) # DumpsItem(p[2]))

\* the (old_item, new_item) pairs, old symbols first, then the added ones
get_changes(old_full_data, new_full_data) ==
    LET old_records == RecordsOf(old_full_data)
        new_records == RecordsOf(new_full_data)
        paired == [i \in 1..Len(old_records) |->
                     IF HasCode(new_records, old_records[i].stock_code)
                     THEN <<old_records[i], ItemOf(new_records, old_records[i].stock_code)>>
                     ELSE <<old_records[i], None>>]
        kept == SelectSeq(paired,
                    LAMBDA p : p[2] = None \/ DumpsItem(p[1]) # DumpsItem(p[2]))
        added == SelectSeq(new_records,
                    LAMBDA n : ~HasCode(old_records, n.stock_code))
    IN  kept \o [i \in 1..Len(added) |-> <<None, added[i]>>]

\* current_market_ratio returned by get_changes: the 'ratio' of the first
\* market_items entry (None when the entry has no such key), or 1 when
\* market_items is missing or empty
current_market_ratio(new_full_data) ==
    IF new_full_data.market_items # <<>>
    THEN LET first == new_full_data.market_items[1]
         IN  IF "ratio" \in DOMAIN first THEN first.ratio ELSE None
    ELSE Num(1)

(* ------------------------- Python float arithmetic --------------------- *)
\* The ratios and quantities of the trader are Python floats (IEEE 754
\* doubles, every operation rounded to the nearest double, ties to even).
\* The operations the code applies to them are computed here on the
\* mantissa and exponent, so that a quotient such as 510 / 10 comes out as
\* the code gets it (50.99999999999999) and not as the real number 51.
\* A natural number below 2^90: six digits in base 2^15, lowest first.
BZero == <<0, 0, 0, 0, 0, 0>>
BOne == <<1, 0, 0, 0, 0, 0>>

\* six digits that overflow or underflow the base brought back into range
Carry(a) ==
    LET c1 == a[1] \div 32768
        c2 == (a[2] + c1) \div 32768
        c3 == (a[3] + c2) \div 32768
        c4 == (a[4] + c3) \div 32768
        c5 == (a[5] + c4) \div 32768
    IN  <<a[1] % 32768, (a[2] + c1) % 32768, (a[3] + c2) % 32768,
          (a[4] + c3) % 32768, (a[5] + c4) % 32768, (a[6] + c5) % 32768>>

\* a machine integer n >= 0 as such a number, and back
Big(n) == Carry(<<n, 0, 0, 0, 0, 0>>)
BInt(a) == a[1] + 32768 * (a[2] + 32768 * a[3])

BAdd(a, b) ==
    Carry(<<a[1] + b[1], a[2] + b[2], a[3] + b[3],
            a[4] + b[4], a[5] + b[5], a[6] + b[6]>>)
\* a - b for a >= b
BSub(a, b) ==
    Carry(<<a[1] - b[1], a[2] - b[2], a[3] - b[3],
            a[4] - b[4], a[5] - b[5], a[6] - b[6]>>)
\* a * k for a machine integer 0 <= k < 2^15
BTimes(a, k) ==
    Carry(<<a[1] * k, a[2] * k, a[3] * k, a[4] * k, a[5] * k, a[6] * k>>)
BDouble(a) == BTimes(a, 2)

\* -1, 0 or 1 as a is below, equal to or above b
BCmp(a, b) ==
    IF a = b THEN 0
    ELSE LET top == CHOOSE i \in 1..6 :
                      a[i] # b[i] /\ \A j \in (i + 1)..6 : a[j] = b[j]
         IN  IF a[top] < b[top] THEN -1 ELSE 1

\* digit i of a, 0 outside the six digits
Digit(a, i) == IF i \in 1..6 THEN a[i] ELSE 0

\* a * 2^k (below 2^90) and a \div 2^k
BShiftLeft(a, k) ==
    LET s == k \div 15
        t == k % 15
        d(i) == ((Digit(a, i - s) * 2^t) % 32768) + (Digit(a, i - s - 1) \div 2^(15 - t))
    IN  <<d(1), d(2), d(3), d(4), d(5), d(6)>>
BShiftRight(a, k) ==
    LET s == k \div 15
        t == k % 15
        d(i) == (Digit(a, i + s) \div 2^t) + ((Digit(a, i + s + 1) % 2^t) * 2^(15 - t))
    IN  <<d(1), d(2), d(3), d(4), d(5), d(6)>>

\* the number of binary digits of a > 0
BitLength(a) ==
    LET top == CHOOSE i \in 1..6 : a[i] # 0 /\ \A j \in (i + 1)..6 : a[j] = 0
    IN  15 * (top - 1) + (CHOOSE k \in 1..15 : 2^(k - 1) <= a[top] /\ a[top] < 2^k)

\* A double that is not negative: m * 2^e with 2^52 <= m < 2^53, or 0 with
\* m = 0. Exponents stay far from the range where doubles overflow or
\* become subnormal.
FZero == [m |-> BZero, e |-> 0]

\* <<n', d', e'>> with n / d * 2^e = n' / d' * 2^e' and d' <= n' < 2d'
Scale(n, d, e) ==
    LET k == BitLength(n) - BitLength(d)
        n1 == IF k < 0 THEN BShiftLeft(n, -k) ELSE n
        d1 == IF k > 0 THEN BShiftLeft(d, k) ELSE d
    IN  IF BCmp(n1, d1) < 0 THEN <<BDouble(n1), d1, e + k - 1>>
        ELSE <<n1, d1, e + k>>

\* one step of the long division by d in base 16: the next four binary
\* digits of the quotient qr[1], with the remainder qr[2]
DivisionStep(qr, d) ==
    IF qr[2] = BZero THEN <<BTimes(qr[1], 16), BZero>> ELSE
    LET r16 == BTimes(qr[2], 16)
        digit == CHOOSE g \in 0..15 : /\ BCmp(BTimes(d, g), r16) <= 0
                                      /\ BCmp(r16, BTimes(d, g + 1)) < 0
    IN  <<BAdd(BTimes(qr[1], 16), Big(digit)), BSub(r16, BTimes(d, digit))>>

\* k steps
RECURSIVE DivisionSteps(_, _, _)
DivisionSteps(k, qr, d) ==
    IF k = 0 THEN qr ELSE DivisionSteps(k - 1, DivisionStep(qr, d), d)

\* the first 53 binary digits q of n / d for d <= n < 2d, and the remainder
\* r of the long division: n * 2^52 = q * d + r (13 steps of four digits
\* after the first digit, which is 1)
LongDivision(n, d) == DivisionSteps(13, <<BOne, BSub(n, d)>>, d)

\* the quotient of a long division by d rounded to the nearest integer, ties
\* to even
RoundedQuotient(division, d) ==
    LET half == BCmp(BDouble(division[2]), d)
    IN  IF /\ division[2] # BZero
           /\ half > 0 \/ (half = 0 /\ division[1][1] % 2 = 1)
        THEN BAdd(division[1], BOne)
        ELSE division[1]

\* q * 2^e with q brought back to 53 binary digits when rounding carried
\* into a 54th
Normal(q, e) ==
    IF BitLength(q) = 54 THEN [m |-> BShiftRight(q, 1), e |-> e + 1]
    ELSE [m |-> q, e |-> e]

\* the double nearest to s[1] / s[2] * 2^s[3] for s[2] <= s[1] < 2 * s[2]
NearestScaled(s) ==
    Normal(RoundedQuotient(LongDivision(s[1], s[2]), s[2]), s[3] - 52)

\* the double nearest to n / d * 2^e, ties to the even mantissa
Nearest(n, d, e) ==
    IF n = BZero THEN FZero ELSE NearestScaled(Scale(n, d, e))

\* float(n) of an integer n >= 0, and the value of the decimal a/b
Float(n) == Nearest(Big(n), BOne, 0)
Decimal(a, b) == Nearest(Big(a), Big(b), 0)

\* x * k for an integer 0 <= k < 2^15 (float(k) is exact), and x / y
FTimes(x, k) == Nearest(BTimes(x.m, k), BOne, x.e)
FDiv(x, y) == Nearest(x.m, y.m, x.e - y.e)

\* the mantissas of x and y over their smaller exponent
Aligned(x, y) ==
    LET e == IF x.e < y.e THEN x.e ELSE y.e
    IN  <<BShiftLeft(x.m, x.e - e), BShiftLeft(y.m, y.e - e), e>>

\* x < y
FLess(x, y) ==
    IF y.m = BZero THEN FALSE
    ELSE IF x.m = BZero THEN TRUE
    ELSE BCmp(Aligned(x, y)[1], Aligned(x, y)[2]) < 0

\* abs(x - y)
FAbsDiff(x, y) ==
    IF x.m = BZero THEN y
    ELSE IF y.m = BZero THEN x
    ELSE LET a == Aligned(x, y)
         IN  IF BCmp(a[1], a[2]) < 0
             THEN Nearest(BSub(a[2], a[1]), BOne, a[3])
             ELSE Nearest(BSub(a[1], a[2]), BOne, a[3])

\* int(x): the integer part of x
FInt(x) ==
    IF x.e >= 0 THEN BInt(BShiftLeft(x.m, x.e))
    ELSE BInt(BShiftRight(x.m, -x.e))

\* round(x, 2) in hundredths: x * 100 exactly, rounded to the nearest
\* integer, ties to even
FRound2(x) ==
    LET n == BTimes(x.m, 100)
    IN  IF x.e >= 0 THEN BInt(BShiftLeft(n, x.e))
        ELSE LET q == BShiftRight(n, -x.e)
                 rest == BSub(n, BShiftLeft(q, -x.e))
                 half == BCmp(BDouble(rest), BShiftLeft(BOne, -x.e))
             IN  IF half > 0 \/ (half = 0 /\ BInt(q) % 2 = 1)
                 THEN BInt(q) + 1 ELSE BInt(q)

(* ------------------------- generate_change_data ------------------------ *)
Abs(n) == IF n < 0 THEN -n ELSE n

\* round(a / b) for a >= 0, b > 0, ties to even as Python's round does
RoundDiv(a, b) ==
    LET q == a \div b
        r == a % b
    IN  IF 2 * r < b THEN q
        ELSE IF 2 * r > b THEN q + 1
        ELSE IF q % 2 = 0 THEN q ELSE q + 1

\* the divisor used for both percents: total_market_ratio when it is a
\* number other than 0, else the fallback 1
Denominator(total_market_ratio) ==
    IF "num" \in DOMAIN total_market_ratio /\ total_market_ratio.num # 0
    THEN total_market_ratio.num ELSE 1

total_ratio_of(item) == IF item = None THEN 0 ELSE item.total_ratio

\* the values the percents are computed from: the total_ratio of the
\* records (0 for an absent record) and the divisors
TotalRatios == {0, 5, 10, 100, 105, 110, 115, 140, 150, 300, 570}
Denominators == {1, 500, 1000, 2000}

\* total_ratio / total_market_ratio * 100, both integers of the document
percent_of ==
    [r \in TotalRatios, d \in Denominators |-> FTimes(Decimal(r, d), 100)]

\* round(percent, 2), in hundredths of a percent
rounded_percent ==
    [r \in TotalRatios, d \in Denominators |-> FRound2(percent_of[r, d])]

\* abs(new_ratio_percent - old_ratio_percent) < 1
below_one_point ==
    [a \in TotalRatios, b \in TotalRatios, d \in Denominators |->
        FLess(FAbsDiff(percent_of[b, d], percent_of[a, d]), Float(1))]

\* round(total_ratio / total_market_ratio * 100, 2), in hundredths of a percent
ratio_percent(item, total_market_ratio) ==
    rounded_percent[total_ratio_of(item), Denominator(total_market_ratio)]

\* not (abs(new_ratio_percent - old_ratio_percent) < 1)
Material(item_old, item_new, total_market_ratio) ==
    ~below_one_point[total_ratio_of(item_old), total_ratio_of(item_new),
                     Denominator(total_market_ratio)]

\* change_type_of with the comparison of the total ratios reversed
change_type_of_reversed(item_old, item_new) ==
    IF item_old = None THEN "OPEN"
    ELSE IF item_new = None THEN "CLOSE"
    ELSE IF total_ratio_of(item_new) < total_ratio_of(item_old) THEN "BUY"
    ELSE "SELL"

change_type_of(item_old, item_new) ==
    IF item_old = None THEN "OPEN"
    ELSE IF item_new = None THEN "CLOSE"
    ELSE IF total_ratio_of(item_new) > total_ratio_of(item_old) THEN "BUY"
    ELSE "SELL"

\* '.US' for market 2 and no suffix otherwise (the '.HK' value is overwritten)
stock_code_suffix(market) == IF market = 2 THEN ".US" ELSE ""

change_entry(item_old, item_new, total_market_ratio) ==
    LET item == IF item_new # None THEN item_new ELSE item_old
    IN  [stock_code |-> item.stock_code \o stock_code_suffix(item.market),
         old_ratio_percent |-> ratio_percent(item_old, total_market_ratio),
         new_ratio_percent |-> ratio_percent(item_new, total_market_ratio),
         change_type |-> change_type_of(item_old, item_new)]

\* json_output["changes"]; the empty list stands for the (None, "") result
generate_change_data(changed_items, total_market_ratio) ==
    LET material == SelectSeq(changed_items,
                        LAMBDA p : Material(p[1], p[2], total_market_ratio))
    IN  [i \in 1..Len(material) |->
            change_entry(material[i][1], material[i][2], total_market_ratio)]

(* ------------------------- brokerage value domains --------------------- *)
Symbols == {"AAA.US", "BBB.US"}
\* quote prices and cost prices, in cents
Prices == {0, 9000, 10000, 10800, 60000}
CostPrices == {0, 10000}
Quantities == {10, 50}
\* shares of a position not locked by a pending order
AvailableQuantities == {0, 4, 10, 50}
Timestamps == {1, 2}
OrderIds == {"r1", "r2"}
\* datetime.now(eastern) as minutes after midnight
NowTimes == {239, 240, 1200, 1201}

\* resp.channels[0].positions entries
Positions ==
    {p \in [symbol : Symbols, cost_price : CostPrices,
            quantity : Quantities, available_quantity : AvailableQuantities] :
        /\ p.available_quantity <= p.quantity
        /\ p.symbol = "BBB.US" => p.available_quantity = 50
        /\ p.available_quantity = 4 => p.quantity = 10
        /\ p.cost_price = 0 =>
              p.symbol = "AAA.US" /\ p.available_quantity = 10 /\ p.quantity = 10}

DistinctSymbols(ps) ==
    \A i, j \in 1..Len(ps) : i # j => ps[i].symbol # ps[j].symbol

PositionLists ==
    {s \in SeqsUpTo(Positions, MaxPositions) :
        /\ DistinctSymbols(s)
        /\ Len(s) > 1 => /\ s[1].symbol = "AAA.US"
                         /\ s[1].cost_price = 10000
                         /\ s[1].available_quantity = s[1].quantity}

\* quote(): the regular, pre-market and post-market ticks, in that order
Ticks == [timestamp : Timestamps, last_done : Prices]
Quotes ==
    {q \in [1..3 -> Ticks] :
        /\ q[2].last_done = 9000
        /\ q[3] = [timestamp |-> 1, last_done |-> 10800]}

\* cur_quote_list.sort(key=timestamp, reverse=True)[0][1]: the stable sort
\* keeps the earliest listed tick among those with the greatest timestamp
latest_price(cur_quote) ==
    LET newest == CHOOSE i \in 1..3 :
                    /\ \A j \in 1..3 : cur_quote[j].timestamp <= cur_quote[i].timestamp
                    /\ \A j \in 1..(i - 1) : cur_quote[j].timestamp < cur_quote[i].timestamp
    IN  cur_quote[newest].last_done

(* --------------------------- check_trading_hours ----------------------- *)
check_trading_hours(now_time) == US_START <= now_time /\ now_time <= US_END

(* ------------------------------- persistence --------------------------- *)
\* load_last_known_data: a missing or unreadable file loads as None
load_last_known_data(f) == IF f = None \/ f = Corrupt THEN None ELSE f

\* save_current_data: the contents of the file afterwards; a write that
\* raises leaves the file as it was and the failure is swallowed
save_current_data(f, data, written) == IF written THEN data ELSE f

(* -------------------------- rebalancing arithmetic --------------------- *)
\* next(pos for pos in current_positions if pos.symbol == stock_code)
current_qty_of(positions, stock_code) ==
    IF \E i \in 1..Len(positions) : positions[i].symbol = stock_code
    THEN positions[CHOOSE i \in 1..Len(positions) :
                      /\ positions[i].symbol = stock_code
                      /\ \A j \in 1..(i - 1) : positions[j].symbol # stock_code
                  ].available_quantity
    ELSE 0

\* the values the rebalancing arithmetic is applied to: the
\* new_ratio_percent of the change entries (hundredths of a percent), the
\* latest tick prices (cents) and the available quantities
RatioPercents == {0, 500, 525, 1000, 1050, 1100, 1500, 3000, 5700}

\* a cost of 16.01 and a tick of 6.01: with 10 shares the loss is 100.00, the
\* hundredth of the balance
BoundaryPrices == {601, 1601}

\* round(float(last_done), 2) and float(position.cost_price): the double of a
\* price of c cents
price_of == [c \in Prices \cup CostPrices \cup BoundaryPrices |-> Decimal(c, 100)]

\* target_ratio = change["new_ratio_percent"] / 100, new_ratio_percent being
\* the double round(..., 2) returned for h hundredths
target_ratio_of == [h \in RatioPercents |-> FDiv(Decimal(h, 100), Float(100))]

\* abs(current_ratio - target_ratio), with
\* current_ratio = current_qty * current_price / self.usd_balance
ratio_gap ==
    [qty \in AvailableQuantities, c \in Prices, h \in RatioPercents |->
        FAbsDiff(FDiv(FTimes(price_of[c], qty), Float(usd_balance)),
                 target_ratio_of[h])]

\* abs(current_ratio - target_ratio) < 0.05
in_dead_band ==
    [qty \in AvailableQuantities, c \in Prices, h \in RatioPercents |->
        FLess(ratio_gap[qty, c, h], Decimal(5, 100))]

\* int(self.usd_balance * target_ratio / current_price) if current_price > 0
\* else 0
target_qty_of ==
    [c \in Prices, h \in RatioPercents |->
        IF c > 0
        THEN FInt(FDiv(FTimes(target_ratio_of[h], usd_balance), price_of[c]))
        ELSE 0]

\* rebalance_order with the side of a BUY or SELL entry taken from the sign
\* of qty_diff instead of the change type
rebalance_order_by_sign(change, current_qty, current_price) ==
    LET target_qty == target_qty_of[current_price, change.new_ratio_percent]
        qty_diff == target_qty - current_qty
        mk(side, qty) == [symbol |-> change.stock_code, side |-> side,
                          submitted_quantity |-> qty,
                          submitted_price |-> current_price,
                          origin |-> "track_and_trade"]
    IN  IF in_dead_band[current_qty, current_price, change.new_ratio_percent]
        THEN None
        ELSE IF change.change_type = "OPEN" /\ target_qty > 0 /\ current_qty = 0
        THEN mk("Buy", target_qty)
        ELSE IF change.change_type = "CLOSE" /\ current_qty > 0
        THEN mk("Sell", current_qty)
        ELSE IF change.change_type \in {"BUY", "SELL"} /\ qty_diff > 0
        THEN mk("Buy", qty_diff)
        ELSE IF change.change_type \in {"BUY", "SELL"} /\ qty_diff < 0
        THEN mk("Sell", Abs(qty_diff))
        ELSE None

\* the order track_and_trade submits for one change, or None
rebalance_order(change, current_qty, current_price) ==
    LET target_qty == target_qty_of[current_price, change.new_ratio_percent]
        qty_diff == target_qty - current_qty
        mk(side, qty) == [symbol |-> change.stock_code, side |-> side,
                          submitted_quantity |-> qty,
                          submitted_price |-> current_price,
                          origin |-> "track_and_trade"]
    IN  IF in_dead_band[current_qty, current_price, change.new_ratio_percent]
        THEN None
        ELSE IF change.change_type = "OPEN" /\ target_qty > 0 /\ current_qty = 0
        THEN mk("Buy", target_qty)
        ELSE IF change.change_type = "CLOSE" /\ current_qty > 0
        THEN mk("Sell", current_qty)
        ELSE IF change.change_type = "BUY" /\ qty_diff > 0
        THEN mk("Buy", qty_diff)
        ELSE IF change.change_type = "SELL" /\ qty_diff < 0
        THEN mk("Sell", Abs(qty_diff))
        ELSE None

(* ------------------------------ exit conditions ------------------------ *)
\* loss / self.usd_balance with loss = (cost_price - current_price) *
\* current_qty, and profit / self.usd_balance with profit = (current_price -
\* cost_price) * current_qty: the two differences are the same double
loss_or_profit_ratio ==
    [cost \in CostPrices \cup BoundaryPrices,
     c \in Prices \cup BoundaryPrices, qty \in Quantities |->
        FDiv(FTimes(FAbsDiff(price_of[cost], price_of[c]), qty), Float(usd_balance))]

\* loss / self.usd_balance > self.loss_threshold
above_loss_threshold ==
    [cost \in CostPrices \cup BoundaryPrices,
     c \in Prices \cup BoundaryPrices, qty \in Quantities |->
        FLess(Decimal(loss_threshold, 10000), loss_or_profit_ratio[cost, c, qty])]

\* profit / self.usd_balance > self.profit_threshold
above_profit_threshold ==
    [cost \in CostPrices \cup BoundaryPrices,
     c \in Prices \cup BoundaryPrices, qty \in Quantities |->
        FLess(Decimal(profit_threshold, 10000), loss_or_profit_ratio[cost, c, qty])]

\* current_price < cost_price and loss / usd_balance > loss_threshold
stop_loss(position, current_price) ==
    /\ current_price < position.cost_price
    /\ above_loss_threshold[position.cost_price, current_price, position.quantity]

\* current_price > cost_price and profit / usd_balance > profit_threshold
take_profit(position, current_price) ==
    /\ current_price > position.cost_price
    /\ above_profit_threshold[position.cost_price, current_price, position.quantity]

\* the order check_and_trade submits for one position, or None
exit_order(position, current_price) ==
    IF ~(current_price > 0 /\ position.cost_price > 0) THEN None
    ELSE IF stop_loss(position, current_price) \/ take_profit(position, current_price)
    THEN [symbol |-> position.symbol, side |-> "Sell",
          submitted_quantity |-> position.available_quantity,
          submitted_price |-> current_price,
          origin |-> "check_and_trade"]
    ELSE None

(* ================================ state ================================ *)
VARIABLES
    pc,                    \* where the process is: the statement main executes next
    file,                  \* contents of LOCAL_DATA_FILE: None (missing), Corrupt or a snapshot
    last_known_full_data,  \* main's in-memory baseline
    current_full_data,     \* main's fetched snapshot (None: fetch failed)
    interval_seconds,      \* main's interval for this cycle
    in_trading_hours,      \* what check_trading_hours() returned in this cycle
    current_price,         \* current_price of the running loop iteration, in cents
    current_positions,     \* positions list of the running check_and_trade / track_and_trade
    idx,                   \* index of the loop over positions or changes
    changes,               \* json_output["changes"] being processed
    order,                 \* arguments of the running (or last) submit_order call
    attempt,               \* submit_order's loop variable
    api_calls,             \* ctx.submit_order calls made by this submit_order call
    retry_sleeps,          \* time.sleep(retry_delay) calls made by this submit_order call
    receipt,               \* what ctx.submit_order returned last
    resp,                  \* what submit_order returned
    exc,                   \* the exception that ended the process, or None
    mails,                 \* notifications handed to SMTP in this cycle
    saves,                 \* save_current_data calls made in this cycle, with their outcome
    slept,                 \* duration of the inter-cycle sleep just finished
    cycle_path             \* the branch of main this cycle took

vars == <<pc, file, last_known_full_data, current_full_data, interval_seconds,
          in_trading_hours, current_price, current_positions, idx, changes,
          order, attempt, api_calls, retry_sleeps, receipt, resp, exc, mails,
          saves, slept, cycle_path>>

baseline_vars == <<file, last_known_full_data>>
loop_vars == <<current_positions, idx, changes>>
submit_vars == <<order, attempt, api_calls, retry_sleeps, receipt, resp>>

\* main before the while loop: load the baseline, construct the trader
Init ==
    /\ file \in {None, Corrupt} \cup Snapshots
    /\ last_known_full_data = load_last_known_data(file)
    /\ current_full_data = None
    /\ interval_seconds = 0
    /\ in_trading_hours = FALSE
    /\ current_price = 0
    /\ current_positions = <<>>
    /\ idx = 0
    /\ changes = <<>>
    /\ order = None
    /\ attempt = 0
    /\ api_calls = 0
    /\ retry_sleeps = 0
    /\ receipt = None
    /\ resp = None
    /\ exc = None
    /\ mails = <<>>
    /\ saves = <<>>
    /\ slept = 0
    /\ cycle_path = "none"
    /\ pc = "check_and_trade"

\* no submit_order call is running
SubmitIdle ==
    /\ order' = None
    /\ attempt' = 0
    /\ api_calls' = 0
    /\ retry_sleeps' = 0
    /\ receipt' = None
    /\ resp' = None

\* an exception nobody catches: check_and_trade, track_and_trade,
\* call_trade_api and main have no handler, so the process ends
Uncaught(type, origin) ==
    /\ exc' = [type |-> type, origin |-> origin]
    /\ pc' = "crashed"

\* a call of submit_order(...) from the loop body at idx
CallSubmitOrder(o) ==
    /\ order' = o
    /\ attempt' = 0
    /\ api_calls' = 0
    /\ retry_sleeps' = 0
    /\ receipt' = None
    /\ resp' = None
    /\ pc' = "submit_order"

(* ============================ check_and_trade ========================== *)
\* a new cycle starts: check_and_trade reads the positions, one of the lists
\* the brokerage can return
ReadPositions(lists) ==
    /\ pc = "check_and_trade"
    /\ mails' = <<>>
    /\ saves' = <<>>
    /\ slept' = 0
    /\ cycle_path' = "none"
    /\ changes' = <<>>
    /\ SubmitIdle
    /\ UNCHANGED <<baseline_vars, current_full_data, interval_seconds,
                   in_trading_hours, current_price>>
    /\ \/ \E ps \in lists :
            /\ current_positions' = ps
            /\ idx' = 1
            /\ pc' = "cat_loop"
            /\ exc' = exc
       \/ /\ Uncaught("Exception", "stock_positions")
          /\ UNCHANGED <<current_positions, idx>>

CheckAndTrade == ReadPositions(PositionLists)

\* one iteration of the loop over positions, the quote being one of those
\* the brokerage can return
CheckQuoted(quotes) ==
    /\ pc = "cat_loop"
    /\ idx <= Len(current_positions)
    /\ UNCHANGED <<baseline_vars, current_full_data, interval_seconds, in_trading_hours,
                   current_positions, changes, mails, saves, slept, cycle_path>>
    /\ LET position == current_positions[idx]
       IN  IF position.available_quantity <= 0
           THEN /\ idx' = idx + 1
                /\ SubmitIdle
                /\ UNCHANGED <<pc, exc, current_price>>
           ELSE \/ \E cur_quote \in quotes :
                     LET o == exit_order(position, latest_price(cur_quote))
                     IN  /\ current_price' = latest_price(cur_quote)
                         /\ IF o = None
                            THEN /\ idx' = idx + 1
                                 /\ SubmitIdle
                                 /\ UNCHANGED <<pc, exc>>
                            ELSE /\ CallSubmitOrder(o)
                                 /\ UNCHANGED <<idx, exc>>
                \/ /\ Uncaught("Exception", "quote")
                   /\ SubmitIdle
                   /\ UNCHANGED <<idx, current_price>>

CheckPosition == CheckQuoted(Quotes)

\* the loop over positions is over: check_and_trade returns to main
CheckAndTradeDone ==
    /\ pc = "cat_loop"
    /\ idx > Len(current_positions)
    /\ pc' = "fetch"
    /\ current_positions' = <<>>
    /\ idx' = 0
    /\ current_price' = 0
    /\ SubmitIdle
    /\ UNCHANGED <<baseline_vars, current_full_data, interval_seconds,
                   in_trading_hours, changes, exc, mails, saves, slept,
                   cycle_path>>

(* ============================== submit_order =========================== *)
\* where submit_order's caller continues: the next iteration of its loop
return_pc(origin) == IF origin = "check_and_trade" THEN "cat_loop" ELSE "tat_loop"

\* next_step without the test for the last attempt: a failure always sleeps
next_step_no_exhaustion(outcome, att) ==
    IF outcome = "ok" THEN "return" ELSE "sleep"

\* next_step with the return moved behind the loop: a success keeps retrying
next_step_no_short_circuit(outcome, att) ==
    IF att < max_retries - 1 THEN "sleep"
    ELSE IF outcome = "ok" THEN "return"
    ELSE "raise"

\* what follows one ctx.submit_order call of the retry loop
next_step(outcome, att) ==
    IF outcome = "ok" THEN "return"
    ELSE IF att = max_retries - 1 THEN "raise"
    ELSE "sleep"

\* send_error_notification: the message is handed to SMTP; a delivery
\* failure is swallowed by its except clause
send_error_notification(sent, error_type, delivered) ==
    Append(sent, [kind |-> "error", error |-> error_type, delivered |-> delivered])

\* reraised without the except clause around the SMTP session: a delivery
\* failure replaces the order failure
reraised_smtp(error_type, delivered) ==
    IF delivered THEN error_type ELSE "SMTPException"

\* the exception the bare raise re-raises after the notification
reraised(error_type, delivered) == error_type

\* one pass of the retry loop: ctx.submit_order and its except clauses
SubmitOrderAttempt ==
    /\ pc = "submit_order"
    /\ api_calls' = api_calls + 1
    /\ UNCHANGED <<baseline_vars, current_full_data, interval_seconds, in_trading_hours,
                   current_price, current_positions, changes, order, attempt,
                   retry_sleeps, saves, slept, cycle_path>>
    /\ \E outcome \in {"ok", "RequestException", "Exception"},
          id \in OrderIds, delivered \in BOOLEAN :
          LET step == next_step(outcome, attempt)
          IN  /\ receipt' = IF outcome = "ok"
                            THEN [order_id |-> id, attempt |-> attempt + 1]
                            ELSE None
              /\ resp' = IF step = "return" THEN receipt' ELSE None
              /\ mails' = IF step = "raise"
                          THEN send_error_notification(mails, outcome, delivered)
                          ELSE mails
              /\ IF step = "return"
                 THEN /\ pc' = return_pc(order.origin)
                      /\ idx' = idx + 1
                      /\ exc' = exc
                 ELSE IF step = "raise"
                 THEN /\ Uncaught(reraised(outcome, delivered), order.origin)
                      /\ idx' = idx
                 ELSE /\ pc' = "retry_delay"
                      /\ idx' = idx
                      /\ exc' = exc

\* time.sleep(retry_delay), then the next value of range(max_retries); an
\* exhausted range ends the function, which then returns None
RetryDelay ==
    /\ pc = "retry_delay"
    /\ retry_sleeps' = retry_sleeps + 1
    /\ attempt' = attempt + 1
    /\ IF attempt + 1 < max_retries
       THEN /\ pc' = "submit_order"
            /\ idx' = idx
       ELSE /\ pc' = return_pc(order.origin)
            /\ idx' = idx + 1
    /\ UNCHANGED <<baseline_vars, current_full_data, interval_seconds, in_trading_hours,
                   current_price, current_positions, changes, order, api_calls,
                   receipt, resp, exc, mails, saves, slept, cycle_path>>

(* ================================= main ================================ *)
\* FetchFailed with the baseline assigned before the None test
FetchFailed_drops_baseline ==
    /\ pc' = "sleep"
    /\ cycle_path' = "fetch_failed"
    /\ last_known_full_data' = None
    /\ file' = file

\* main when fetch_current_data returned None: sleep, then continue
FetchFailed ==
    /\ pc' = "sleep"
    /\ cycle_path' = "fetch_failed"
    /\ UNCHANGED baseline_vars

\* fetch_current_data, check_trading_hours and the None test, on a feed
\* that serves one of the documents of feed or fails
FetchFrom(feed) ==
    /\ pc = "fetch"
    /\ SubmitIdle
    /\ UNCHANGED <<current_price, loop_vars, mails, saves, slept>>
    /\ \/ \E data \in feed \cup {None}, now_time \in NowTimes :
            /\ current_full_data' = data
            /\ in_trading_hours' = check_trading_hours(now_time)
            /\ interval_seconds' = IF in_trading_hours'
                                   THEN POLLING_INTERVAL_SECONDS
                                   ELSE OFF_HOURS_INTERVAL
            /\ exc' = exc
            /\ IF data = None
               THEN FetchFailed
               ELSE /\ pc' = "compare"
                    /\ UNCHANGED <<baseline_vars, cycle_path>>
       \/ \* the body is JSON but not an object: data.get raises AttributeError
          /\ Uncaught("AttributeError", "fetch_current_data")
          /\ UNCHANGED <<baseline_vars, current_full_data, interval_seconds,
                         in_trading_hours, cycle_path>>

FetchCurrentData == FetchFrom(Snapshots)

\* records_differ over the whole 'data' documents, market_items included
records_differ_whole(last_full_data, new_full_data) ==
    last_full_data # new_full_data

\* json.dumps(last_record_items) != json.dumps(current_record_items)
records_differ(last_full_data, new_full_data) ==
    DumpsList(RecordsOf(last_full_data)) # DumpsList(RecordsOf(new_full_data))

\* json_changes with the percents taken over the old document's market ratio
json_changes_old_market(old_full_data, new_full_data) ==
    generate_change_data(get_changes(old_full_data, new_full_data),
                         current_market_ratio(old_full_data))

\* json_content["changes"] of call_trade_api (empty: nothing to process)
json_changes(old_full_data, new_full_data) ==
    generate_change_data(get_changes(old_full_data, new_full_data),
                         current_market_ratio(new_full_data))

\* AfterCallTradeApi without the test of has_changes: every differing
\* snapshot is saved
AfterCallTradeApi_always_save(has_changes) ==
    /\ \E written \in BOOLEAN :
          /\ file' = save_current_data(file, current_full_data, written)
          /\ saves' = Append(saves, [data |-> current_full_data,
                                     written |-> written])
    /\ last_known_full_data' = current_full_data
    /\ pc' = "sleep"

\* main after call_trade_api returned has_changes
AfterCallTradeApi(has_changes) ==
    /\ IF has_changes
       THEN \E written \in BOOLEAN :
               /\ file' = save_current_data(file, current_full_data, written)
               /\ saves' = Append(saves, [data |-> current_full_data,
                                          written |-> written])
       ELSE UNCHANGED <<file, saves>>
    /\ last_known_full_data' = current_full_data
    /\ pc' = "sleep"

\* main with a baseline, after a successful fetch: the comparison of the
\* record lists and call_trade_api up to the call of track_and_trade
Compare ==
    /\ pc = "compare"
    /\ last_known_full_data # None
    /\ SubmitIdle
    /\ UNCHANGED <<current_full_data, interval_seconds, in_trading_hours,
                   current_price, current_positions, idx, exc, mails, slept>>
    /\ IF records_differ(last_known_full_data, current_full_data)
       THEN LET cs == json_changes(last_known_full_data, current_full_data)
            IN  IF cs # <<>>
                THEN /\ changes' = cs
                     /\ pc' = "track_and_trade"
                     /\ cycle_path' = "processing"
                     /\ UNCHANGED <<baseline_vars, saves>>
                ELSE /\ AfterCallTradeApi(FALSE)
                     /\ cycle_path' = "no_entries"
                     /\ changes' = changes
       ELSE /\ pc' = "sleep"
            /\ cycle_path' = "identical"
            /\ UNCHANGED <<baseline_vars, changes, saves>>

\* Bootstrap that saves the snapshot but keeps no baseline in memory
Bootstrap_no_adopt ==
    /\ pc = "compare"
    /\ last_known_full_data = None
    /\ \E written \in BOOLEAN :
          /\ file' = save_current_data(file, current_full_data, written)
          /\ saves' = Append(saves, [data |-> current_full_data,
                                     written |-> written])
    /\ last_known_full_data' = last_known_full_data
    /\ pc' = "sleep"
    /\ cycle_path' = "bootstrap"
    /\ SubmitIdle
    /\ UNCHANGED <<current_full_data, interval_seconds, in_trading_hours,
                   current_price, loop_vars, exc, mails, slept>>

\* main without a baseline, after a successful fetch
Bootstrap ==
    /\ pc = "compare"
    /\ last_known_full_data = None
    /\ \E written \in BOOLEAN :
          /\ file' = save_current_data(file, current_full_data, written)
          /\ saves' = Append(saves, [data |-> current_full_data,
                                     written |-> written])
    /\ last_known_full_data' = current_full_data
    /\ pc' = "sleep"
    /\ cycle_path' = "bootstrap"
    /\ SubmitIdle
    /\ UNCHANGED <<current_full_data, interval_seconds, in_trading_hours,
                   current_price, loop_vars, exc, mails, slept>>

(* ============================ track_and_trade ========================== *)
\* track_and_trade reads the positions
TrackAndTrade ==
    /\ pc = "track_and_trade"
    /\ SubmitIdle
    /\ UNCHANGED <<baseline_vars, current_full_data, interval_seconds,
                   in_trading_hours, current_price, changes, mails, saves,
                   slept, cycle_path>>
    /\ \/ \E ps \in PositionLists :
            /\ current_positions' = ps
            /\ idx' = 1
            /\ pc' = "tat_loop"
            /\ exc' = exc
       \/ /\ Uncaught("Exception", "stock_positions")
          /\ UNCHANGED <<current_positions, idx>>

\* one iteration of the loop over the changes
TrackChange ==
    /\ pc = "tat_loop"
    /\ idx <= Len(changes)
    /\ UNCHANGED <<baseline_vars, current_full_data, interval_seconds, in_trading_hours,
                   current_positions, changes, mails, saves, slept, cycle_path>>
    /\ \/ \E cur_quote \in Quotes :
            LET change == changes[idx]
                o == rebalance_order(change,
                         current_qty_of(current_positions, change.stock_code),
                         latest_price(cur_quote))
            IN  /\ current_price' = latest_price(cur_quote)
                /\ IF o = None
                   THEN /\ idx' = idx + 1
                        /\ SubmitIdle
                        /\ UNCHANGED <<pc, exc>>
                   ELSE /\ CallSubmitOrder(o)
                        /\ UNCHANGED <<idx, exc>>
       \/ /\ Uncaught("Exception", "quote")
          /\ SubmitIdle
          /\ UNCHANGED <<idx, current_price>>

\* send_email: the message is handed to SMTP; a delivery failure is swallowed
send_email(sent, delivered) ==
    Append(sent, [kind |-> "change", error |-> "", delivered |-> delivered])

\* the loop over the changes is over: track_and_trade returns, call_trade_api
\* sends the change mail and returns True, main saves the new baseline
TrackAndTradeDone ==
    /\ pc = "tat_loop"
    /\ idx > Len(changes)
    /\ \E delivered \in BOOLEAN : mails' = send_email(mails, delivered)
    /\ AfterCallTradeApi(TRUE)
    /\ cycle_path' = "processed"
    /\ current_positions' = <<>>
    /\ idx' = 0
    /\ current_price' = 0
    /\ SubmitIdle
    /\ UNCHANGED <<current_full_data, interval_seconds, in_trading_hours, changes,
                   exc, slept>>

\* Sleep with the polling interval whatever check_trading_hours() returned
Sleep_polling_interval ==
    /\ pc = "sleep"
    /\ slept' = POLLING_INTERVAL_SECONDS
    /\ pc' = "check_and_trade"
    /\ current_full_data' = None
    /\ interval_seconds' = 0
    /\ in_trading_hours' = FALSE
    /\ changes' = <<>>
    /\ UNCHANGED <<baseline_vars, current_price, current_positions, idx,
                   submit_vars, exc, mails, saves, cycle_path>>

\* Sleep when check_and_trade is called only after a successful fetch: the
\* cycle after a failed fetch starts at fetch_current_data
Sleep_scan_needs_feed ==
    /\ pc = "sleep"
    /\ slept' = interval_seconds
    /\ pc' = IF cycle_path = "fetch_failed" THEN "fetch" ELSE "check_and_trade"
    /\ current_full_data' = None
    /\ interval_seconds' = 0
    /\ in_trading_hours' = FALSE
    /\ changes' = <<>>
    /\ UNCHANGED <<baseline_vars, current_price, current_positions, idx,
                   submit_vars, exc, mails, saves, cycle_path>>

\* time.sleep(interval_seconds) at the end of a cycle or after a failed
\* fetch. What the cycle left behind is dropped here: current_full_data,
\* the result of check_trading_hours() and interval_seconds are assigned
\* again before main reads them.
Sleep ==
    /\ pc = "sleep"
    /\ slept' = interval_seconds
    /\ pc' = "check_and_trade"
    /\ current_full_data' = None
    /\ interval_seconds' = 0
    /\ in_trading_hours' = FALSE
    /\ changes' = <<>>
    /\ UNCHANGED <<baseline_vars, current_price, current_positions, idx,
                   submit_vars, exc, mails, saves, cycle_path>>

Next ==
    \/ CheckAndTrade
    \/ CheckPosition
    \/ CheckAndTradeDone
    \/ SubmitOrderAttempt
    \/ RetryDelay
    \/ FetchCurrentData
    \/ Compare
    \/ Bootstrap
    \/ TrackAndTrade
    \/ TrackChange
    \/ TrackAndTradeDone
    \/ Sleep

Spec == Init /\ [][Next]_vars

TypeOK ==
    /\ pc \in {"check_and_trade", "cat_loop", "submit_order", "retry_delay",
               "fetch", "compare", "track_and_trade", "tat_loop", "sleep",
               "crashed"}
    /\ file \in {None, Corrupt} \cup Snapshots
    /\ last_known_full_data \in {None} \cup Snapshots
    /\ current_full_data \in {None} \cup Snapshots
    /\ attempt \in 0..max_retries
    /\ Len(saves) <= 1

(* ====================== call_trade_api on its own ====================== *)
\* The differ applied to pairs of documents drawn from a wider domain than
\* the feed of Spec serves: ratio steps of half a point, one point and one
\* and a half points of a market ratio of 1000, small holdings of half a
\* point and one point, and market_items that are missing, lack the ratio,
\* or hold null, a string, 0, 500 or 1000.
DiffRecordItems ==
    {Record("AAA", r) : r \in {100, 105, 110, 115, 140, 150}}
        \cup {Record("BBB", r) : r \in {5, 10, 300}}

DiffRecordLists ==
    {s \in SeqsUpTo(DiffRecordItems, MaxRecords) : DistinctCodes(s)}

DiffMarketItems ==
    {<<>>, <<NoRatioItem>>, <<MarketItem(None)>>, <<MarketItem(Text)>>,
     <<MarketItem(Num(0))>>, <<MarketItem(Num(500))>>, <<MarketItem(Num(1000))>>}

\* the new document, and the baseline it is compared with
DiffSnapshots == [record_items : DiffRecordLists, market_items : DiffMarketItems]
DiffBaselines ==
    {s \in DiffSnapshots :
        s.market_items \in {<<MarketItem(Num(500))>>, <<MarketItem(Num(1000))>>}}

\* main is about to call call_trade_api(last_known_full_data, current_full_data)
DiffInit ==
    /\ last_known_full_data \in DiffBaselines
    /\ current_full_data \in DiffSnapshots
    /\ file = last_known_full_data
    /\ interval_seconds = 0
    /\ in_trading_hours = FALSE
    /\ current_price = 0
    /\ current_positions = <<>>
    /\ idx = 0
    /\ changes = <<>>
    /\ order = None
    /\ attempt = 0
    /\ api_calls = 0
    /\ retry_sleeps = 0
    /\ receipt = None
    /\ resp = None
    /\ exc = None
    /\ mails = <<>>
    /\ saves = <<>>
    /\ slept = 0
    /\ cycle_path = "none"
    /\ pc = "call_trade_api"

\* call_trade_api up to json_content: get_changes, then generate_change_data
CallTradeApi ==
    /\ pc = "call_trade_api"
    /\ changes' = json_changes(last_known_full_data, current_full_data)
    /\ pc' = "json_content"
    /\ UNCHANGED <<baseline_vars, current_full_data, interval_seconds,
                   in_trading_hours, current_price, current_positions, idx,
                   submit_vars, exc, mails, saves, slept, cycle_path>>

DiffNext == CallTradeApi

DiffSpec == DiffInit /\ [][DiffNext]_vars

(* ====================== track_and_trade on its own ===================== *)
\* One call of track_and_trade on change entries the feed of Spec does not
\* produce: AAA at 10%, 15% or 57% of a market ratio of 1000 beside BBB at
\* 30%, in either order.
TradeRecordItems ==
    {Record("AAA", 100), Record("AAA", 150), Record("AAA", 570), Record("BBB", 300)}

TradeRecordLists ==
    {s \in SeqsUpTo(TradeRecordItems, MaxRecords) : DistinctCodes(s)}

TradeSnapshots ==
    [record_items : TradeRecordLists, market_items : {<<MarketItem(Num(1000))>>}]

\* call_trade_api is about to call track_and_trade(json_content) in trading
\* hours, the baseline being the one the file holds
TradeInit ==
    /\ last_known_full_data \in TradeSnapshots
    /\ current_full_data \in TradeSnapshots
    /\ file = last_known_full_data
    /\ changes = json_changes(last_known_full_data, current_full_data)
    /\ changes # <<>>
    /\ interval_seconds = POLLING_INTERVAL_SECONDS
    /\ in_trading_hours = TRUE
    /\ current_price = 0
    /\ current_positions = <<>>
    /\ idx = 0
    /\ order = None
    /\ attempt = 0
    /\ api_calls = 0
    /\ retry_sleeps = 0
    /\ receipt = None
    /\ resp = None
    /\ exc = None
    /\ mails = <<>>
    /\ saves = <<>>
    /\ slept = 0
    /\ cycle_path = "processing"
    /\ pc = "track_and_trade"

TradeNext ==
    \/ TrackAndTrade
    \/ TrackChange
    \/ SubmitOrderAttempt
    \/ RetryDelay
    \/ TrackAndTradeDone

TradeSpec == TradeInit /\ [][TradeNext]_vars

(* ======================== main on a drifting feed ====================== *)
\* The program on a feed whose only record moves in steps of half a point:
\* AAA at 10%, 10.5% or 11% of a market ratio of 1000.
DriftSnapshots ==
    {[record_items |-> <<Record("AAA", r)>>,
      market_items |-> <<MarketItem(Num(1000))>>] : r \in {100, 105, 110}}

\* main before the while loop
DriftInit ==
    /\ file \in {None} \cup DriftSnapshots
    /\ last_known_full_data = load_last_known_data(file)
    /\ current_full_data = None
    /\ interval_seconds = 0
    /\ in_trading_hours = FALSE
    /\ current_price = 0
    /\ current_positions = <<>>
    /\ idx = 0
    /\ changes = <<>>
    /\ order = None
    /\ attempt = 0
    /\ api_calls = 0
    /\ retry_sleeps = 0
    /\ receipt = None
    /\ resp = None
    /\ exc = None
    /\ mails = <<>>
    /\ saves = <<>>
    /\ slept = 0
    /\ cycle_path = "none"
    /\ pc = "check_and_trade"

DriftFetch == FetchFrom(DriftSnapshots)

DriftNext ==
    \/ CheckAndTrade
    \/ CheckPosition
    \/ CheckAndTradeDone
    \/ SubmitOrderAttempt
    \/ RetryDelay
    \/ DriftFetch
    \/ Compare
    \/ Bootstrap
    \/ TrackAndTrade
    \/ TrackChange
    \/ TrackAndTradeDone
    \/ Sleep

DriftSpec == DriftInit /\ [][DriftNext]_vars

(* ===================== check_and_trade on its own ====================== *)
\* Positions bought at 16.01 or at 100.00, 10 shares each, all or none of
\* them available, quoted at 6.01, 16.01 or 100.00.
ExitPositions ==
    [symbol : Symbols, cost_price : {1601, 10000}, quantity : {10},
     available_quantity : {0, 10}]

ExitPositionLists ==
    {s \in SeqsUpTo(ExitPositions, MaxPositions) : DistinctSymbols(s)}

ExitQuotes ==
    {q \in [1..3 -> [timestamp : Timestamps, last_done : {601, 1601, 10000}]] :
        /\ q[2].last_done = 1601
        /\ q[3] = [timestamp |-> 1, last_done |-> 10000]}

\* main before the while loop, nothing persisted
ExitInit == Init /\ file = None

ExitReadPositions == ReadPositions(ExitPositionLists)

ExitCheckPosition == CheckQuoted(ExitQuotes)

ExitNext ==
    \/ ExitReadPositions
    \/ ExitCheckPosition
    \/ CheckAndTradeDone
    \/ SubmitOrderAttempt
    \/ RetryDelay

ExitSpec == ExitInit /\ [][ExitNext]_vars

(* ================================ claims =============================== *)
OrderFailures == {"RequestException", "Exception"}

\* submit_order has just returned to the loop that called it
SubmitReturned == pc \in {"cat_loop", "tat_loop"} /\ order # None

\* submit_order has raised: the process ended with the order's exception
SubmitRaised ==
    pc = "crashed" /\ exc.origin \in {"check_and_trade", "track_and_trade"}

ErrorMails == SelectSeq(mails, LAMBDA m : m.kind = "error")
ChangeMails == SelectSeq(mails, LAMBDA m : m.kind = "change")

\* C1: a submit_order call whose every attempt fails makes exactly 3
\* attempts, sleeps the retry delay after attempts 1 and 2 and never after
\* attempt 3, sends exactly one failure notification and then raises: it
\* sleeps only after a failed attempt that is not the third, it returns only
\* after an attempt that succeeded, and when it raises it has made 3
\* attempts, slept twice and sent one notification.
C1_RetryBound ==
    /\ pc = "submit_order" =>
          /\ api_calls < max_retries
          /\ retry_sleeps = api_calls
          /\ ErrorMails = <<>>
    /\ pc = "retry_delay" =>
          /\ api_calls \in 1..(max_retries - 1)
          /\ retry_sleeps = api_calls - 1
          /\ ErrorMails = <<>>
    /\ SubmitReturned => receipt # None
    /\ SubmitRaised =>
          /\ api_calls = 3
          /\ retry_sleeps = 2
          /\ Len(ErrorMails) = 1
          /\ exc.type \in OrderFailures
          /\ receipt = None

C1_Witness ==
    /\ SubmitRaised
    /\ api_calls = 3
    /\ retry_sleeps = 2
    /\ Len(mails) = 1
    /\ exc.type = "RequestException"

\* C2: when the k-th attempt of submit_order is the first to succeed,
\* submit_order has made exactly k attempts and k-1 retry sleeps, sends no
\* failure notification and returns that attempt's receipt unmodified; no
\* attempt or sleep follows a success.
C2_SuccessShortCircuits ==
    /\ SubmitReturned =>
          /\ resp = receipt
          /\ resp # None
          /\ receipt.attempt = api_calls
          /\ api_calls \in 1..max_retries
          /\ retry_sleeps = api_calls - 1
          /\ ErrorMails = <<>>
          /\ exc = None
    /\ pc \in {"submit_order", "retry_delay"} => receipt = None /\ resp = None

C2_Witness ==
    /\ SubmitReturned
    /\ api_calls = 2
    /\ retry_sleeps = 1
    /\ resp = [order_id |-> "r2", attempt |-> 2]

\* C3: once the retries are exhausted the order failure reaches the caller
\* whether or not the failure notification was delivered: every failure
\* notification handed to SMTP is followed by the order's own exception (of
\* the class the notification names), and no notification, delivered or not,
\* ends the process with an exception of its own.
C3_FailurePropagates ==
    /\ \A i \in 1..Len(mails) :
          mails[i].kind = "error" =>
              /\ SubmitRaised
              /\ exc.type = mails[i].error
              /\ exc.type \in OrderFailures
    /\ \A i \in 1..Len(mails) :
          mails[i].kind = "change" => exc = None /\ pc \in {"sleep", "check_and_trade"}
    /\ exc # None => exc.type # "SMTPException"

C3_Witness ==
    /\ SubmitRaised
    /\ Len(mails) = 1
    /\ mails[1].kind = "error"
    /\ ~mails[1].delivered
    /\ exc.type = "Exception"

\* C4: no error is fatal to the scheduler: in particular a terminal
\* order-submission failure, in check_and_trade or in track_and_trade, never
\* ends the main loop; the cycle goes on to its sleep.
C4_NoErrorIsFatal == ~SubmitRaised

\* C5: a terminal order failure for one change entry leaves no later change
\* entry of the cycle unprocessed.
C5_RemainingEntriesProcessed ==
    ~(pc = "crashed" /\ exc.origin = "track_and_trade" /\ idx < Len(changes))

\* the cycle is at main's comparison of a fetched snapshot with a baseline
AtCompare == pc = "compare" /\ last_known_full_data # None

\* the record lists of baseline and fetched snapshot are structurally equal
SameRecords == RecordsOf(last_known_full_data) = RecordsOf(current_full_data)

\* a rebalancing order is being submitted
RebalancingOrder == order # None /\ order.origin = "track_and_trade"

\* C6: once a baseline exists, a step calls save_current_data or changes
\* the file only at the end of a cycle that found the record lists of
\* baseline and fetched snapshot different, produced at least one change
\* entry and processed every entry without a terminal failure; what it
\* saves is the fetched snapshot.
C6_RewriteOnlyAfterProcessing ==
    [][(last_known_full_data # None /\ (file' # file \/ Len(saves') > Len(saves))) =>
          /\ ~SameRecords
          /\ changes # <<>>
          /\ changes = json_changes(last_known_full_data, current_full_data)
          /\ pc = "tat_loop"
          /\ idx > Len(changes)
          /\ exc = None
          /\ Len(saves') = 1
          /\ saves'[1].data = current_full_data
          /\ file' = IF saves'[1].written THEN current_full_data ELSE file]_vars

C6_Witness ==
    /\ pc = "sleep"
    /\ cycle_path = "processed"
    /\ Len(saves) = 1
    /\ saves[1].written
    /\ file = current_full_data
    /\ Len(changes) = 2

\* C7: a cycle whose record lists differ but whose classification yields
\* no change entry leaves the file and the baseline main compares against
\* in the next cycle as they were.
C7_NoEntriesKeepsBaseline ==
    [][(AtCompare /\ ~SameRecords
          /\ json_changes(last_known_full_data, current_full_data) = <<>>) =>
          /\ file' = file
          /\ last_known_full_data' = last_known_full_data]_vars

\* C8: with a baseline whose record list equals the fetched one, whatever
\* the market ratios, the cycle goes straight to its sleep: no change entry,
\* no rebalancing order, no notification, no save, file and in-memory
\* baseline unchanged.
C8_IdenticalRecordsSkip ==
    [][/\ (AtCompare /\ SameRecords) =>
            /\ pc' = "sleep"
            /\ cycle_path' = "identical"
            /\ changes' = <<>>
            /\ mails' = <<>>
            /\ saves' = <<>>
            /\ order' = None
            /\ UNCHANGED <<file, last_known_full_data>>
       /\ cycle_path = "identical" =>
            /\ pc \in {"sleep", "check_and_trade"}
            /\ ~RebalancingOrder
            /\ mails = <<>>
            /\ UNCHANGED <<file, last_known_full_data>>]_vars

C8_Witness ==
    /\ pc = "sleep"
    /\ cycle_path = "identical"
    /\ last_known_full_data # None
    /\ current_full_data # None
    /\ current_full_data.market_items # last_known_full_data.market_items
    /\ current_full_data.record_items = last_known_full_data.record_items
    /\ Len(current_full_data.record_items) > 0

\* C9: when fetch_current_data returns None the cycle makes no diff, submits
\* no rebalancing order, sends no notification, saves nothing, leaves file
\* and in-memory baseline untouched, sleeps the interval chosen in that cycle
\* and then starts a new cycle.
C9_FetchFailureSkipsCycle ==
    [][/\ (pc = "fetch" /\ current_full_data' = None /\ exc' = None) =>
            /\ pc' = "sleep"
            /\ cycle_path' = "fetch_failed"
            /\ interval_seconds' \in {POLLING_INTERVAL_SECONDS, OFF_HOURS_INTERVAL}
            /\ changes' = <<>>
            /\ mails' = <<>>
            /\ saves' = <<>>
            /\ order' = None
            /\ UNCHANGED <<file, last_known_full_data>>
       /\ (pc = "sleep" /\ cycle_path = "fetch_failed") =>
            /\ slept' = interval_seconds
            /\ pc' = "check_and_trade"
            /\ UNCHANGED <<file, last_known_full_data, changes, mails, saves, order>>]_vars

C9_Witness ==
    /\ pc = "check_and_trade"
    /\ cycle_path = "fetch_failed"
    /\ slept = OFF_HOURS_INTERVAL
    /\ last_known_full_data # None
    /\ file = last_known_full_data

\* C10: with no baseline (no file, or an unreadable one) a successful fetch
\* is saved and adopted as the baseline whatever it holds: save_current_data
\* is called once with the fetched snapshot, which the file then holds unless
\* the write raised, the in-memory baseline becomes the fetched snapshot, and
\* the cycle goes to its sleep without a change entry, a rebalancing order
\* or a notification.
C10_BootstrapAdoptsSnapshot ==
    [][(pc = "compare" /\ last_known_full_data = None) =>
          /\ Len(saves') = 1
          /\ saves'[1].data = current_full_data
          /\ file' = IF saves'[1].written THEN current_full_data ELSE file
          /\ last_known_full_data' = current_full_data
          /\ last_known_full_data' \in Snapshots
          /\ pc' = "sleep"
          /\ changes' = <<>>
          /\ mails' = <<>>
          /\ order' = None]_vars

C10_Witness ==
    /\ pc = "sleep"
    /\ cycle_path = "bootstrap"
    /\ Len(saves) = 1
    /\ saves[1].written
    /\ file = current_full_data
    /\ last_known_full_data = current_full_data
    /\ mails = <<>>

\* one iteration of the loop over the changes that read its quote
RebalanceStep == pc = "tat_loop" /\ idx <= Len(changes) /\ exc' = None

\* C11: an OPEN entry processed with nothing held and a CLOSE entry
\* processed with a positive holding are not subject to the dead band: with
\* a positive price, OPEN buys the whole target quantity
\* floor(balance * new_ratio_percent/100 / price) and CLOSE sells the whole
\* holding, however close the current ratio is to the target ratio.
C11_SpecialCasesBypassDeadBand ==
    [][(RebalanceStep /\ current_price' > 0) =>
          LET change == changes[idx]
              current_qty == current_qty_of(current_positions, change.stock_code)
              target_qty == (usd_balance * change.new_ratio_percent)
                                \div (100 * current_price')
          IN  /\ (change.change_type = "OPEN" /\ current_qty = 0 /\ target_qty > 0) =>
                    /\ order' # None
                    /\ order'.side = "Buy"
                    /\ order'.submitted_quantity = target_qty
              /\ (change.change_type = "CLOSE" /\ current_qty > 0) =>
                    /\ order' # None
                    /\ order'.side = "Sell"
                    /\ order'.submitted_quantity = current_qty]_vars

\* |current_ratio - target_ratio| against the balance, in cents times percent
RatioGap(current_qty, price, new_ratio_percent) ==
    LET held == current_qty * price * 100
        wanted == new_ratio_percent * usd_balance
    IN  IF held < wanted THEN wanted - held ELSE held - wanted

\* 0.05 of the balance in the units of RatioGap
DeadBandWidth == 500 * usd_balance

\* the delta the ratio translation yields for a change: zero when the loop
\* continues at the dead band, else qty_diff = target_qty - current_qty
qty_diff_of(change, current_qty, price) ==
    IF in_dead_band[current_qty, price, change.new_ratio_percent] THEN 0
    ELSE target_qty_of[price, change.new_ratio_percent] - current_qty

\* C12: for a BUY or SELL entry the delta is zero and no order is submitted
\* when |current_ratio - target_ratio| < 0.05, with current_ratio =
\* current_qty * price / balance and target_ratio = new_ratio_percent / 100,
\* and the delta is non-zero whenever that difference is at least 0.05.
C12_DeadBandAlwaysNonZero ==
    [][(RebalanceStep /\ changes[idx].change_type \in {"BUY", "SELL"}) =>
          LET change == changes[idx]
              current_qty == current_qty_of(current_positions, change.stock_code)
              gap == RatioGap(current_qty, current_price', change.new_ratio_percent)
              delta == qty_diff_of(change, current_qty, current_price')
          IN  /\ gap < DeadBandWidth => delta = 0 /\ order' = None
              /\ gap >= DeadBandWidth => delta # 0]_vars

(* ------------------- claims about call_trade_api (DiffSpec) ------------ *)
\* call_trade_api has computed json_content
Diffed == pc = "json_content"

\* the record a document holds for a code, None when it holds none
RecordOf(full_data, code) ==
    IF HasCode(RecordsOf(full_data), code)
    THEN ItemOf(RecordsOf(full_data), code)
    ELSE None

\* the change entries json_content holds for a code (a US stock)
EntriesOf(code) == SelectSeq(changes, LAMBDA e : e.stock_code = code \o ".US")

\* the ratio of the first market_items entry of the new document when that
\* is a number other than 0, else 1
NewMarketDenominator ==
    LET items == current_full_data.market_items
    IN  IF items = <<>> THEN 1
        ELSE IF "ratio" \notin DOMAIN items[1] THEN 1
        ELSE IF "num" \notin DOMAIN items[1].ratio THEN 1
        ELSE IF items[1].ratio.num = 0 THEN 1
        ELSE items[1].ratio.num

\* C13: a pair whose ratio percents differ by strictly less than 1 point
\* yields no change entry and a pair whose percents differ by 1 point or
\* more yields exactly one, whether the pair is an addition, a removal or a
\* modification (|new - old| / denominator * 100 < 1 is written without the
\* division).
C13_MaterialityFilter ==
    Diffed =>
        \A code \in StockCodes :
            LET item_old == RecordOf(last_known_full_data, code)
                item_new == RecordOf(current_full_data, code)
                gap == Abs(total_ratio_of(item_new) - total_ratio_of(item_old)) * 100
            IN  /\ (item_old # item_new /\ gap < NewMarketDenominator) =>
                      EntriesOf(code) = <<>>
                /\ (item_old # item_new /\ gap >= NewMarketDenominator) =>
                      Len(EntriesOf(code)) = 1
                /\ item_old = item_new => EntriesOf(code) = <<>>

\* C14: every change entry has exactly one change type: OPEN iff the old
\* record is absent, CLOSE iff the new record is absent, otherwise BUY iff its
\* new_ratio_percent is greater than its old_ratio_percent and SELL
\* otherwise; OPEN and BUY entries record a rise of the percent, CLOSE and
\* SELL entries a fall.
C14_Classification ==
    Diffed =>
        \A code \in StockCodes :
            LET item_old == RecordOf(last_known_full_data, code)
                item_new == RecordOf(current_full_data, code)
                entries == EntriesOf(code)
            IN  \A i \in 1..Len(entries) :
                    LET e == entries[i]
                    IN  /\ e.change_type \in {"OPEN", "CLOSE", "BUY", "SELL"}
                        /\ e.change_type = "OPEN" <=> item_old = None
                        /\ e.change_type = "CLOSE" <=> item_new = None
                        /\ (item_old # None /\ item_new # None) =>
                              /\ e.change_type = "BUY" <=>
                                    e.new_ratio_percent > e.old_ratio_percent
                              /\ e.change_type = "SELL" <=>
                                    ~(e.new_ratio_percent > e.old_ratio_percent)
                        /\ e.change_type \in {"OPEN", "BUY"} =>
                              e.new_ratio_percent > e.old_ratio_percent
                        /\ e.change_type \in {"CLOSE", "SELL"} =>
                              e.new_ratio_percent < e.old_ratio_percent

\* a reduction and an addition classified in one change list
C14_Witness ==
    /\ Diffed
    /\ Len(changes) = 2
    /\ changes[1].change_type = "SELL"
    /\ changes[1].stock_code = "AAA.US"
    /\ changes[2].change_type = "OPEN"
    /\ changes[2].stock_code = "BBB.US"

\* C15: both percents of every change entry are the record's total ratio (0
\* for an absent record) divided by one denominator and multiplied by 100,
\* rounded to two decimals; the denominator is the new document's market
\* ratio, or 1 when that ratio is absent, zero or not a number, and so is
\* never 0.
C15_SingleDenominator ==
    Diffed =>
        /\ NewMarketDenominator # 0
        /\ \A code \in StockCodes :
              LET item_old == RecordOf(last_known_full_data, code)
                  item_new == RecordOf(current_full_data, code)
                  entries == EntriesOf(code)
              IN  \A i \in 1..Len(entries) :
                      /\ entries[i].old_ratio_percent =
                            RoundDiv(total_ratio_of(item_old) * 10000,
                                     NewMarketDenominator)
                      /\ entries[i].new_ratio_percent =
                            RoundDiv(total_ratio_of(item_new) * 10000,
                                     NewMarketDenominator)

\* a market ratio of 0 in the new document: the percents are taken over 1,
\* not over the old document's 500
C15_Witness ==
    /\ Diffed
    /\ current_full_data.market_items = <<MarketItem(Num(0))>>
    /\ last_known_full_data.market_items = <<MarketItem(Num(500))>>
    /\ changes = <<[stock_code |-> "AAA.US", old_ratio_percent |-> 1000000,
                    new_ratio_percent |-> 1050000, change_type |-> "BUY"]>>

\* the records of a document as a set
RecordSet(full_data) ==
    {RecordsOf(full_data)[i] : i \in 1..Len(RecordsOf(full_data))}

\* a change list applied to a set of records, and the inverse change list
ApplyChanges(pairs, records) ==
    ((records \ {pairs[i][1] : i \in 1..Len(pairs)})
        \cup {pairs[i][2] : i \in 1..Len(pairs)}) \ {None}
InverseChanges(pairs) == [i \in 1..Len(pairs) |-> <<pairs[i][2], pairs[i][1]>>]

\* the pairs of a change list that are about a code
PairsAbout(pairs, code) ==
    {i \in 1..Len(pairs) :
        \/ pairs[i][1] # None /\ pairs[i][1].stock_code = code
        \/ pairs[i][2] # None /\ pairs[i][2].stock_code = code}

\* C16: for documents A and B with at most one record per code,
\* get_changes(A, B) holds exactly one pair (old record or None, new record
\* or None) for every code whose records differ and none for any other code;
\* applying the pairs to the records of A gives the records of B, applying
\* the inverse pairs to the records of B gives the records of A, and
\* get_changes of a document with itself is empty.
C16_DiffRoundTrip ==
    Diffed =>
        LET pairs == get_changes(last_known_full_data, current_full_data)
        IN  /\ \A code \in StockCodes :
                  LET item_old == RecordOf(last_known_full_data, code)
                      item_new == RecordOf(current_full_data, code)
                  IN  IF item_old = item_new
                      THEN PairsAbout(pairs, code) = {}
                      ELSE /\ Cardinality(PairsAbout(pairs, code)) = 1
                           /\ \A i \in PairsAbout(pairs, code) :
                                 pairs[i] = <<item_old, item_new>>
            /\ \A i \in 1..Len(pairs) : \E code \in StockCodes : i \in PairsAbout(pairs, code)
            /\ ApplyChanges(pairs, RecordSet(last_known_full_data))
                  = RecordSet(current_full_data)
            /\ ApplyChanges(InverseChanges(pairs), RecordSet(current_full_data))
                  = RecordSet(last_known_full_data)
            /\ get_changes(last_known_full_data, last_known_full_data) = <<>>
            /\ get_changes(current_full_data, current_full_data) = <<>>

\* a modification below the materiality threshold and an addition
C16_Witness ==
    /\ Diffed
    /\ get_changes(last_known_full_data, current_full_data) =
          << <<Record("AAA", 100), Record("AAA", 105)>>,
             <<None, Record("BBB", 300)>> >>
    /\ changes = <<[stock_code |-> "BBB.US", old_ratio_percent |-> 0,
                    new_ratio_percent |-> 3000, change_type |-> "OPEN"]>>

(* --------------------- claims about the trader (Spec) ------------------ *)
\* one iteration of the loop over the positions that did not raise
ExitStep == pc = "cat_loop" /\ idx <= Len(current_positions) /\ exc' = None

\* C17: check_and_trade submits an order for a position, a sell of that
\* symbol, if and only if available_quantity > 0, current_price > 0,
\* cost_price > 0 and either current_price < cost_price with (cost_price -
\* current_price) * quantity / usd_balance strictly above loss_threshold, or
\* current_price > cost_price with (current_price - cost_price) * quantity /
\* usd_balance strictly above profit_threshold; otherwise the loop moves to
\* the next position without an order.
C17_ExitCondition ==
    [][ExitStep =>
          LET position == current_positions[idx]
              loss == (position.cost_price - current_price') * position.quantity
              profit == (current_price' - position.cost_price) * position.quantity
              due == /\ position.available_quantity > 0
                     /\ current_price' > 0
                     /\ position.cost_price > 0
                     /\ \/ /\ current_price' < position.cost_price
                           /\ loss * 100 > loss_threshold * usd_balance
                        \/ /\ current_price' > position.cost_price
                           /\ profit * 100 > profit_threshold * usd_balance
          IN  /\ order' # None <=> due
              /\ order' # None =>
                    /\ order'.side = "Sell"
                    /\ order'.symbol = position.symbol
                    /\ order'.submitted_price = current_price'
                    /\ order'.origin = "check_and_trade"
                    /\ pc' = "submit_order"
                    /\ idx' = idx
              /\ order' = None =>
                    /\ pc' = "cat_loop"
                    /\ idx' = idx + 1]_vars

\* C18: check_and_trade submits at most one order for a position in a cycle
\* (after an order the loop moves to the next position), and the order is
\* for the position's whole quantity, the quantity the loss or profit was
\* computed from.
C18_FullExit ==
    [][/\ (ExitStep /\ order' # None) =>
            order'.submitted_quantity = current_positions[idx].quantity
       /\ (pc \in {"submit_order", "retry_delay"} /\ pc' = "cat_loop") =>
            idx' = idx + 1]_vars

(* -------------------- claims about the scheduler (Spec) ---------------- *)
\* the interval main chooses from the result of check_trading_hours()
ChosenInterval(open) ==
    IF open THEN POLLING_INTERVAL_SECONDS ELSE OFF_HOURS_INTERVAL

\* C19: the inter-cycle sleep lasts 3600 seconds when check_trading_hours()
\* returned False in that cycle and POLLING_INTERVAL_SECONDS when it returned
\* True, after a failed fetch as after every kind of successful fetch; the
\* predicate is evaluated once per cycle, together with the fetch, and the
\* cycle starts with no interval left from the cycle before.
C19_SleepInterval ==
    [][/\ (pc = "fetch" /\ exc' = None) =>
            /\ interval_seconds' = ChosenInterval(in_trading_hours')
            /\ pc' \in {"sleep", "compare"}
       /\ pc = "sleep" =>
            /\ cycle_path \in {"fetch_failed", "bootstrap", "identical",
                               "no_entries", "processed"}
            /\ slept' = ChosenInterval(in_trading_hours)
            /\ pc' = "check_and_trade"
       /\ pc \notin {"fetch", "sleep"} =>
            UNCHANGED <<in_trading_hours, interval_seconds>>
       /\ pc \in {"check_and_trade", "cat_loop", "fetch"} =>
            interval_seconds = 0 /\ ~in_trading_hours]_vars

\* outside trading hours a cycle that processed a change list slept an hour
C19_Witness ==
    /\ pc = "check_and_trade"
    /\ cycle_path = "processed"
    /\ slept = OFF_HOURS_INTERVAL
    /\ Len(ChangeMails) = 1

\* C20: a change notification is sent only in a cycle that produced a
\* non-empty change list, and exactly one is sent for such a cycle; a failure
\* notification is sent only when an order failed on its last attempt; a
\* cycle whose fetch failed, a bootstrap cycle, a cycle with identical
\* records or without a material difference and an order that succeeded send
\* nothing.
C20_NotificationOccasions ==
    /\ Len(ChangeMails) <= 1
    /\ ChangeMails # <<>> => cycle_path = "processed"
    /\ ErrorMails # <<>> => SubmitRaised /\ api_calls = max_retries
    /\ cycle_path \in {"fetch_failed", "bootstrap", "identical", "no_entries"} =>
          mails = <<>>
    /\ SubmitReturned => ErrorMails = <<>>
    /\ (cycle_path = "processed" /\ pc = "sleep") => Len(ChangeMails) = 1
    /\ (changes # <<>> /\ SubmitRaised) => Len(ChangeMails) = 1

\* an exit order and a rebalancing order
ExitOrder == order # None /\ order.origin = "check_and_trade"

\* C21: every cycle starts with check_and_trade and fetches the feed only
\* when check_and_trade has gone through all positions; the cycle after a
\* failed fetch, after a bootstrap and after an identical record list starts
\* with check_and_trade like any other; within a cycle an exit order is
\* submitted only before the fetch and a rebalancing order only after it.
C21_ExitScanFirst ==
    [][/\ pc' = "fetch" => (pc = "cat_loop" /\ idx > Len(current_positions))
       /\ pc' = "cat_loop" =>
             \/ pc = "check_and_trade"
             \/ pc = "cat_loop" /\ idx <= Len(current_positions)
             \/ pc \in {"submit_order", "retry_delay"} /\ ExitOrder
       /\ pc = "check_and_trade" =>
             /\ pc' \in {"cat_loop", "crashed"}
             /\ current_full_data' = None
             /\ cycle_path' = "none"
       /\ pc = "sleep" =>
             /\ cycle_path \in {"fetch_failed", "bootstrap", "identical",
                                "no_entries", "processed"}
             /\ pc' = "check_and_trade"
       /\ current_full_data' # current_full_data => pc \in {"fetch", "sleep"}
       /\ pc' = "compare" => pc = "fetch"
       /\ pc' = "track_and_trade" => pc = "compare"
       /\ (cycle_path' # cycle_path /\ cycle_path' # "none") =>
             pc \in {"fetch", "compare", "tat_loop"}
       /\ ExitOrder' =>
             /\ current_full_data' = None
             /\ cycle_path' = "none"
             /\ changes' = <<>>
       /\ RebalancingOrder' =>
             /\ current_full_data' # None
             /\ cycle_path' = "processing"
             /\ pc \in {"tat_loop", "submit_order", "retry_delay"}
       /\ (RebalancingOrder /\ ExitOrder') => pc = "check_and_trade"]_vars

\* a cycle after a bootstrap whose write failed scans the positions again:
\* it has sent an exit order for the first of two and has not fetched yet
C21_Witness ==
    /\ pc = "cat_loop"
    /\ idx = 2
    /\ Len(current_positions) = 2
    /\ ExitOrder
    /\ resp # None
    /\ slept = 0
    /\ current_full_data = None
    /\ last_known_full_data # None
    /\ file = None

(* ---------------- claims about the order quantities (TradeSpec) -------- *)
\* C22: every BUY or SELL rebalancing order submitted has the quantity
\* |targetQty - currentQty| with targetQty = floor(balance *
\* (new_ratio_percent / 100) / price) when the price is positive and 0
\* otherwise, currentQty being the quantity read from the positions fetched
\* before the loop (0 when the symbol is not among them), and is priced at
\* the latest tick.
C22_OrderQuantity ==
    [][(RebalanceStep /\ changes[idx].change_type \in {"BUY", "SELL"}
           /\ order' # None) =>
          LET change == changes[idx]
              current_qty == current_qty_of(current_positions, change.stock_code)
              target_qty == IF current_price' > 0
                            THEN (usd_balance * change.new_ratio_percent)
                                    \div (100 * current_price')
                            ELSE 0
          IN  /\ order'.submitted_quantity = Abs(target_qty - current_qty)
              /\ order'.submitted_price = current_price'
              /\ current_price' \in {latest_price(cur_quote) : cur_quote \in Quotes}]_vars

(* ---------------------- claims about the order sides ------------------- *)
\* C23: every order the loop over the changes submits has a positive
\* quantity and the side of its entry's change type (OPEN and BUY buy, CLOSE
\* and SELL sell); an entry whose delta target_qty - current_qty is zero or
\* has the sign opposite to its change type submits nothing; and an entry
\* gets at most one order: submit_order is called only from the iteration
\* of the entry, and once it has returned, with a receipt or without, the
\* loop is at the next entry.
C23_SideAgreesWithChangeType ==
    [][/\ RebalanceStep =>
            LET change == changes[idx]
                current_qty == current_qty_of(current_positions, change.stock_code)
                delta == target_qty_of[current_price', change.new_ratio_percent]
                            - current_qty
            IN  /\ order' # None =>
                      /\ order'.origin = "track_and_trade"
                      /\ order'.symbol = change.stock_code
                      /\ order'.submitted_quantity > 0
                      /\ change.change_type \in {"OPEN", "BUY"} => order'.side = "Buy"
                      /\ change.change_type \in {"CLOSE", "SELL"} => order'.side = "Sell"
                      /\ pc' = "submit_order"
                      /\ idx' = idx
                /\ (change.change_type \in {"OPEN", "BUY"} /\ delta <= 0) => order' = None
                /\ (change.change_type \in {"CLOSE", "SELL"} /\ delta >= 0) => order' = None
                /\ order' = None => pc' = "tat_loop" /\ idx' = idx + 1
       /\ (RebalancingOrder' /\ order' # order) => RebalanceStep
       /\ (RebalancingOrder /\ pc \in {"submit_order", "retry_delay"}) =>
            /\ order' = order
            /\ receipt' # None => pc' = "tat_loop"
            /\ pc' = "tat_loop" => idx' = idx + 1
            /\ pc' # "tat_loop" => idx' = idx /\ receipt' = None]_vars

\* a SELL entry whose delta is positive has been passed without an order:
\* 4 shares are available, the target of 10% at 100.00 is 10 shares
C23_Witness ==
    /\ pc = "tat_loop"
    /\ idx = 2
    /\ changes[1].change_type = "SELL"
    /\ changes[1].new_ratio_percent = 1000
    /\ current_price = 10000
    /\ current_qty_of(current_positions, changes[1].stock_code) = 4
    /\ ~in_dead_band[4, 10000, 1000]
    /\ target_qty_of[10000, 1000] = 10
    /\ order = None

(* ------------------ claims about drifting ratios (DriftSpec) ----------- *)
\* the ratio percents of a symbol in two documents differ by at least one
\* point over the market ratio of the second
DriftedFrom(persisted, fetched, code) ==
    Abs(total_ratio_of(RecordOf(fetched, code))
          - total_ratio_of(RecordOf(persisted, code))) * 100
        >= Denominator(current_market_ratio(fetched))

\* C24: whenever the ratio percent of a symbol in the fetched snapshot
\* differs by at least 1 point from its ratio percent in the baseline the
\* file holds, both over the fetched market ratio, the cycle produces a
\* change entry for the symbol.
C24_NoUnnoticedDrift ==
    [][(pc = "compare" /\ last_known_full_data # None /\ file \notin {None, Corrupt}) =>
          \A code \in StockCodes :
              DriftedFrom(file, current_full_data, code) =>
                  \E i \in 1..Len(changes') :
                      changes'[i].stock_code = code \o stock_code_suffix(2)]_vars

====
